---------------------------- MODULE Spec2Model ----------------------------
(***************************************************************************)
(* Model of the ESP32-CalDAV client (src/src/caldav_client.cpp, declared   *)
(* in src/include/caldav_client.h).                                        *)
(*                                                                         *)
(* Text is modelled as a sequence of tokens.  A token is either one        *)
(* punctuation character ("<", ">", "/", ":", " ", ";"), the line ends CR  *)
(* and LF, or a word no search pattern of the code straddles ("response",  *)
(* "calendar", "BEGIN", ...).  Positions are 0-based as in std::string and *)
(* NPOS stands for std::string::npos.                                      *)
(***************************************************************************)
EXTENDS Integers, Sequences, FiniteSets

VARIABLES
    client,       \* CalDAV_Client_t of the caller: ServerURL, IsInitialized
    HTTP_Config,  \* the static _CalDAV_HTTP_Config record
    pc,           \* "idle", or the operation whose request is in flight
    requests,     \* requests issued by the current (or last) operation call
    lastResp,     \* the transport outcome the operation consumed last
    result,       \* the operation that returned last and its error code
    calendars,    \* the caller's CalDAV_Calendar_List_t
    events,       \* the caller's event array pointer and length
    heap,         \* what the current (or last) operation call allocated
    pure          \* input and output of an extractor applied on its own

vars == <<client, HTTP_Config, pc, requests, lastResp, result, calendars, events, heap, pure>>

-----------------------------------------------------------------------------
(* Bounds of the model *)

\* most requests one call of CalDAV_Calendars_List may issue in the model
MaxRequests == 3
\* most fragments a multistatus body is put together from
MaxBlocks == 2
\* most VEVENT fragments an iCalendar body is put together from
MaxEvents == 2
\* most slots of a calendar array handed to CalDAV_Calendar_Find_By_Name
MaxList == 2
\* longest VALUE of a synthesized KEY:VALUE line
MaxValueLen == 3
\* longest text content of a synthesized XML element
MaxTextLen == 3
\* characters the URL buffer of CalDAV_Calendar_Events_List holds before the
\* terminator, in tokens
MaxURLLen == 11
\* calls of CalDAV_Calendars_Free on one list
MaxFrees == 2
\* characters of an href, in tokens
MaxHrefLen == 4
\* CONFIG_ESP32_CALDAV_BUFFER_LENGTH is at most MaxBufferLength, a chunk has
\* at most MaxChunk bytes and the heap gives out at most MaxBufferSize
MaxBufferLength == 3
MaxChunk == 4
MaxBufferSize == 48

-----------------------------------------------------------------------------
(* std::string primitives *)

NPOS == -1

CR == "CR"
LF == "LF"
LineEnds == {CR, LF}

SetMin(S) == CHOOSE x \in S : \A y \in S : x <= y
SetMax(S) == CHOOSE x \in S : \A y \in S : x >= y

\* the first (last) of the positions found, NPOS when there is none
FirstOf(Hits) == IF Hits = {} THEN NPOS ELSE SetMin(Hits)
LastOf(Hits) == IF Hits = {} THEN NPOS ELSE SetMax(Hits)

\* all sequences over S of length exactly n, and of length at most n
RECURSIVE SeqsOfLen(_, _)
SeqsOfLen(S, n) ==
    IF n = 0 THEN {<<>>} ELSE {Append(s, x) : s \in SeqsOfLen(S, n - 1), x \in S}
SeqsUpTo(S, n) == UNION {SeqsOfLen(S, k) : k \in 0..n}

RECURSIVE Flatten(_)
Flatten(ss) == IF ss = <<>> THEN <<>> ELSE Head(ss) \o Flatten(Tail(ss))

MatchAt(s, pat, i) ==
    /\ i + Len(pat) <= Len(s)
    /\ \A k \in 1..Len(pat) : s[i + k] = pat[k]

\* std::string::find(pat, pos)
Find(s, pat, pos) == FirstOf({i \in pos..(Len(s) - Len(pat)) : MatchAt(s, pat, i)})

\* std::string::find_first_of(chars, pos)
FindFirstOf(s, chars, pos) == FirstOf({i \in pos..(Len(s) - 1) : s[i + 1] \in chars})

\* std::string::find_last_of(ch, pos); pos = NPOS searches the whole string
FindLastOf(s, ch, pos) ==
    LastOf({i \in 0..(IF pos = NPOS \/ pos > Len(s) - 1 THEN Len(s) - 1 ELSE pos) : s[i + 1] = ch})

\* std::string::substr(start, n)
SubStr(s, start, n) ==
    SubSeq(s, start + 1, IF start + n > Len(s) THEN Len(s) ELSE start + n)

\* std::string::substr(start)
SubStrFrom(s, start) == SubSeq(s, start + 1, Len(s))

Contains(s, pat) == Find(s, pat, 0) # NPOS

-----------------------------------------------------------------------------
(* The two extractors.  Each local of the C++ function is a parameter of    *)
(* the operator that models the statements after its assignment.           *)

\* Value with a '\r' at its end removed
StripCR(Value) ==
    IF Value # <<>> /\ Value[Len(Value)] = CR THEN SubSeq(Value, 1, Len(Value) - 1) ELSE Value

\* the value that starts at Start, End being the next line end
ICalValue(Data, Start, End) ==
    IF End = NPOS THEN SubStrFrom(Data, Start) ELSE StripCR(SubStr(Data, Start, End - Start))

\* where the value starts: after a colon that comes before the line end,
\* or right after the field name
ICalStart(AfterField, ColonPos, LineEnd) ==
    IF ColonPos # NPOS /\ (LineEnd = NPOS \/ ColonPos < LineEnd)
    THEN ColonPos + 1
    ELSE AfterField

ICalValueFrom(Data, Start) == ICalValue(Data, Start, FindFirstOf(Data, LineEnds, Start))

ICalAfterField(Data, AfterField) ==
    ICalValueFrom(Data, ICalStart(AfterField, Find(Data, <<":">>, AfterField),
                                  FindFirstOf(Data, LineEnds, AfterField)))

ICalFound(Data, Field, Found) ==
    IF Found = NPOS THEN <<>> ELSE ICalAfterField(Data, Found + Len(Field))

\* _CalDAV_Extract_iCal_Field(Data, Field)
CalDAV_Extract_iCal_Field(Data, Field) == ICalFound(Data, Field, Find(Data, Field, 0))

\* the text from Start up to the closing tag found at End
XMLContent(Data, Start, End) ==
    IF End = NPOS THEN <<>> ELSE SubStr(Data, Start, End - Start)

\* the closing tag searched for after the opening tag
XMLEndTag(Tag) == <<"<", "/">> \o Tag \o <<">">>

\* Close is the '>' that ends the opening tag
XMLAfterOpening(Data, Tag, Close) ==
    IF Close = NPOS THEN <<>>
    ELSE XMLContent(Data, Close + 1, Find(Data, XMLEndTag(Tag), Close + 1))

\* Opening is where the opening tag was found
XMLFromOpening(Data, Tag, Opening) ==
    IF Opening = NPOS THEN <<>> ELSE XMLAfterOpening(Data, Tag, Find(Data, <<">">>, Opening))

\* the opening tag: "<tag>" if the text has it, else ":tag>"
XMLOpening(Plain, Prefixed) == IF Plain = NPOS THEN Prefixed ELSE Plain

\* _CalDAV_Extract_XML_Tag_Value(Data, Tag); Tag is the token sequence of the
\* tag name
CalDAV_Extract_XML_Tag_Value(Data, Tag) ==
    XMLFromOpening(Data, Tag,
                   XMLOpening(Find(Data, <<"<">> \o Tag \o <<">">>, 0),
                              Find(Data, <<":">> \o Tag \o <<">">>, 0)))

-----------------------------------------------------------------------------
(* Values shared by the operations *)

\* a NULL char pointer; an empty C string is <<>>
NullStr == <<"NULL">>
\* a NULL array pointer; an allocated array has at least one slot
NullArray == <<>>

\* _CalDAV_String_to_cstr(str)
CalDAV_String_to_cstr(str) == IF str = <<>> THEN NullStr ELSE str

\* tokens the backward walk of the tag count stops at: every token that is
\* not made of letters and digits only and is not "/"
StopTokens == {"<", ">", ":", " ", ";", "=", "://", "-home-set", "-data", "-description", "!DOCTYPE html", CR, LF}

\* a calloc'ed CalDAV_Calendar_t
ZeroCalendar ==
    [Name |-> NullStr, Path |-> NullStr, DisplayName |-> NullStr,
     Description |-> NullStr, Color |-> NullStr]

\* a calloc'ed CalDAV_Calendar_Event_t
ZeroEvent ==
    [UID |-> NullStr, Summary |-> NullStr, Description |-> NullStr,
     StartTime |-> NullStr, EndTime |-> NullStr, Location |-> NullStr]

\* n calloc'ed slots
Zeroed(n, zero) == [i \in 1..n |-> zero]

\* the URL cut at PathStart, the first '/' after "://"
CutAtPath(URL, PathStart) == IF PathStart = NPOS THEN URL ELSE SubStr(URL, 0, PathStart)

SchemeHostFrom(URL, SchemeEnd) ==
    IF SchemeEnd = NPOS THEN URL ELSE CutAtPath(URL, Find(URL, <<"/">>, SchemeEnd + 1))

\* scheme://host of a URL: the part before the first '/' after "://"
SchemeHost(URL) == SchemeHostFrom(URL, Find(URL, <<"://">>, 0))

-----------------------------------------------------------------------------
(* Calendar Discovery: the parsing part of CalDAV_Calendars_List *)

\* an HTML check that knows the <html> tag only
IsHTML_TagOnly(ResponseStr) ==
    \/ Contains(ResponseStr, <<"<", "html", ">">>)
    \/ Contains(ResponseStr, <<"<", "html", " ">>)

\* the HTML check on the response text
IsHTML(ResponseStr) ==
    \/ Contains(ResponseStr, <<"<", "!DOCTYPE html", ">">>)
    \/ Contains(ResponseStr, <<"<", "html", ">">>)
    \/ Contains(ResponseStr, <<"<", "html", " ">>)

\* the backward walk over a namespace prefix; i is the 0-based position the
\* walk has reached
RECURSIVE WalkPrefix(_, _)
WalkPrefix(ResponseStr, i) ==
    IF i > 0 /\ ResponseStr[i] \notin StopTokens
    THEN WalkPrefix(ResponseStr, i - 1)
    ELSE i

\* i is where the backward walk stopped
PrefixOpensTag(ResponseStr, i) == i > 0 /\ ResponseStr[i] = "<"

\* whether the ":calendar" found at SearchPos is counted as a tag
IsCalendarTag(ResponseStr, SearchPos) ==
    SearchPos > 0 /\ PrefixOpensTag(ResponseStr, WalkPrefix(ResponseStr, SearchPos))

\* the pre-sizing count of ":calendar" tag sites; Hit is the next site
RECURSIVE CountCalendarTags(_, _, _)
CountFromHit(ResponseStr, Hit, CalendarCount) ==
    IF Hit = NPOS THEN CalendarCount
    ELSE CountCalendarTags(ResponseStr, Hit + 2,
             IF IsCalendarTag(ResponseStr, Hit) THEN CalendarCount + 1 ELSE CalendarCount)

CountCalendarTags(ResponseStr, SearchPos, CalendarCount) ==
    CountFromHit(ResponseStr, Find(ResponseStr, <<":", "calendar">>, SearchPos), CalendarCount)

\* a classification that takes every collection for a calendar
ClassifyResType_Collection(ResTypeBlock) ==
    IF \/ Contains(ResTypeBlock, <<":", "calendar">>)
       \/ Contains(ResTypeBlock, <<"<", "calendar">>)
       \/ Contains(ResTypeBlock, <<"<", "collection">>)
    THEN "calendar"
    ELSE IF Contains(ResTypeBlock, <<"<", "principal">>) THEN "principal" ELSE "collection"

\* classification by the text between <resourcetype> and </resourcetype>
ClassifyResType(ResTypeBlock) ==
    IF \/ Contains(ResTypeBlock, <<":", "calendar">>)
       \/ Contains(ResTypeBlock, <<"<", "calendar">>)
    THEN "calendar"
    ELSE IF Contains(ResTypeBlock, <<"<", "principal">>) THEN "principal" ELSE "collection"

ClassifyEnd(ResponseBlock, ResTypePos, ResTypeEnd) ==
    IF ResTypeEnd = NPOS THEN "none"
    ELSE ClassifyResType(SubStr(ResponseBlock, ResTypePos, ResTypeEnd - ResTypePos))

ClassifyFrom(ResponseBlock, ResTypePos) ==
    IF ResTypePos = NPOS THEN "none"
    ELSE ClassifyEnd(ResponseBlock, ResTypePos,
                     Find(ResponseBlock, <<"<", "/", "resourcetype", ">">>, ResTypePos))

\* classification of one response block by its resourcetype sub-block
ClassifyBlock(ResponseBlock) ==
    ClassifyFrom(ResponseBlock, Find(ResponseBlock, <<"<", "resourcetype", ">">>, 0))

\* the segment between the slash before the trailing slash and the latter
NameBefore(HrefStr, LastSlashPos, PrevSlashPos) ==
    IF PrevSlashPos = NPOS THEN NullStr
    ELSE SubStr(HrefStr, PrevSlashPos + 1, LastSlashPos - PrevSlashPos - 1)

NameAt(HrefStr, LastSlashPos) ==
    IF LastSlashPos = NPOS THEN NullStr
    ELSE IF LastSlashPos + 1 < Len(HrefStr) THEN SubStrFrom(HrefStr, LastSlashPos + 1)
    ELSE IF LastSlashPos > 0
    THEN NameBefore(HrefStr, LastSlashPos, FindLastOf(HrefStr, "/", LastSlashPos - 1))
    ELSE NullStr

\* the calendar name taken from a non-empty href
NameFromHref(HrefStr) == NameAt(HrefStr, FindLastOf(HrefStr, "/", NPOS))

\* the record written for a block classified as a calendar
RecordFor(ResponseBlock, HrefStr) ==
    [Name |-> IF HrefStr = <<>> THEN NullStr ELSE NameFromHref(HrefStr),
     Path |-> CalDAV_String_to_cstr(HrefStr),
     DisplayName |->
         CalDAV_String_to_cstr(CalDAV_Extract_XML_Tag_Value(ResponseBlock, <<"displayname">>)),
     Description |->
         CalDAV_String_to_cstr(
             CalDAV_Extract_XML_Tag_Value(ResponseBlock, <<"calendar", "-description">>)),
     Color |-> NullStr]

CalendarRecord(ResponseBlock) ==
    RecordFor(ResponseBlock, CalDAV_Extract_XML_Tag_Value(ResponseBlock, <<"href">>))

\* the principal path after a block of kind Kind with href HrefStr
RememberPrincipal(PrincipalPath, Kind, HrefStr) ==
    IF Kind = "principal" /\ PrincipalPath = <<>> /\ HrefStr # <<>> THEN HrefStr ELSE PrincipalPath

\* the records after a block of kind Kind
WriteCalendar(Written, Kind, ResponseBlock) ==
    IF Kind = "calendar" THEN Append(Written, CalendarRecord(ResponseBlock)) ELSE Written

\* the loop over the <response> blocks: the records written and the
\* principal path remembered when it ends
RECURSIVE ScanResponses(_, _, _, _, _)
ScanBlock(ResponseStr, ResponseEnd, ResponseBlock, Kind, CalendarCount, Written, PrincipalPath) ==
    ScanResponses(ResponseStr, ResponseEnd + 1, CalendarCount,
                  WriteCalendar(Written, Kind, ResponseBlock),
                  RememberPrincipal(PrincipalPath, Kind,
                                    CalDAV_Extract_XML_Tag_Value(ResponseBlock, <<"href">>)))

ScanToEnd(ResponseStr, Begin, ResponseEnd, CalendarCount, Written, PrincipalPath) ==
    IF ResponseEnd = NPOS THEN [Written |-> Written, PrincipalPath |-> PrincipalPath]
    ELSE ScanBlock(ResponseStr, ResponseEnd,
                   SubStr(ResponseStr, Begin, ResponseEnd - Begin),
                   ClassifyBlock(SubStr(ResponseStr, Begin, ResponseEnd - Begin)),
                   CalendarCount, Written, PrincipalPath)

\* a loop that does not look at the count
ScanFrom_Unbounded(ResponseStr, Begin, CalendarCount, Written, PrincipalPath) ==
    IF Begin = NPOS
    THEN [Written |-> Written, PrincipalPath |-> PrincipalPath]
    ELSE ScanToEnd(ResponseStr, Begin, Find(ResponseStr, <<"<", "/", "response", ">">>, Begin),
                   CalendarCount, Written, PrincipalPath)

ScanFrom(ResponseStr, Begin, CalendarCount, Written, PrincipalPath) ==
    IF Begin = NPOS \/ ~(Len(Written) < CalendarCount)
    THEN [Written |-> Written, PrincipalPath |-> PrincipalPath]
    ELSE ScanToEnd(ResponseStr, Begin, Find(ResponseStr, <<"<", "/", "response", ">">>, Begin),
                   CalendarCount, Written, PrincipalPath)

ScanResponses(ResponseStr, SearchPos, CalendarCount, Written, PrincipalPath) ==
    ScanFrom(ResponseStr, Find(ResponseStr, <<"<", "response", ">">>, SearchPos),
             CalendarCount, Written, PrincipalPath)

-----------------------------------------------------------------------------
(* Event Extraction: the parsing part of CalDAV_Calendar_Events_List *)

BeginVEvent == <<"BEGIN", ":", "VEVENT">>
EndVEvent == <<"END", ":", "VEVENT">>

\* the count of BEGIN:VEVENT markers; Hit is the next marker
RECURSIVE CountEvents(_, _, _)
\* a count that stops at the first marker
CountFromMarker_First(ResponseStr, Hit, EventCount) ==
    IF Hit = NPOS THEN EventCount ELSE EventCount + 1

CountFromMarker(ResponseStr, Hit, EventCount) ==
    IF Hit = NPOS THEN EventCount
    ELSE CountEvents(ResponseStr, Hit + Len(BeginVEvent), EventCount + 1)

CountEvents(ResponseStr, SearchPos, EventCount) ==
    CountFromMarker(ResponseStr, Find(ResponseStr, BeginVEvent, SearchPos), EventCount)

\* the record written from the text of one event block
EventRecord(EventData) ==
    [Summary |-> CalDAV_String_to_cstr(CalDAV_Extract_iCal_Field(EventData, <<"SUMMARY", ":">>)),
     Description |->
         CalDAV_String_to_cstr(CalDAV_Extract_iCal_Field(EventData, <<"DESCRIPTION", ":">>)),
     Location |-> CalDAV_String_to_cstr(CalDAV_Extract_iCal_Field(EventData, <<"LOCATION", ":">>)),
     UID |-> CalDAV_String_to_cstr(CalDAV_Extract_iCal_Field(EventData, <<"UID", ":">>)),
     StartTime |-> CalDAV_String_to_cstr(CalDAV_Extract_iCal_Field(EventData, <<"DTSTART">>)),
     EndTime |-> CalDAV_String_to_cstr(CalDAV_Extract_iCal_Field(EventData, <<"DTEND">>))]

\* where the next event block ends, seen from the BEGIN:VEVENT at Begin
EventEndFrom(ResponseStr, Begin) == Find(ResponseStr, EndVEvent, Begin)

\* the loop over the event blocks; mem = k > 0 makes the k-th allocation of
\* a block buffer fail
RECURSIVE ScanEvents(_, _, _, _, _)
\* a loop that takes the rest of the text for the block that has no END:VEVENT
ScanEvent_RestIsBlock(ResponseStr, Begin, EventEnd, EventCount, Written, mem) ==
    IF EventEnd = NPOS
    THEN [nomem |-> FALSE,
          Written |-> Append(Written, EventRecord(SubStrFrom(ResponseStr, Begin)))]
    ELSE IF mem = Len(Written) + 1 THEN [nomem |-> TRUE, Written |-> Written]
    ELSE ScanEvents(ResponseStr, EventEnd + Len(EndVEvent), EventCount,
                    Append(Written,
                           EventRecord(SubStr(ResponseStr, Begin,
                                              EventEnd - Begin + Len(EndVEvent)))),
                    mem)

ScanEvent(ResponseStr, Begin, EventEnd, EventCount, Written, mem) ==
    IF EventEnd = NPOS THEN [nomem |-> FALSE, Written |-> Written]
    ELSE IF mem = Len(Written) + 1 THEN [nomem |-> TRUE, Written |-> Written]
    ELSE ScanEvents(ResponseStr, EventEnd + Len(EndVEvent), EventCount,
                    Append(Written,
                           EventRecord(SubStr(ResponseStr, Begin,
                                              EventEnd - Begin + Len(EndVEvent)))),
                    mem)

ScanEventsFrom(ResponseStr, Begin, EventCount, Written, mem) ==
    IF Begin = NPOS \/ ~(Len(Written) < EventCount)
    THEN [nomem |-> FALSE, Written |-> Written]
    ELSE ScanEvent(ResponseStr, Begin, EventEndFrom(ResponseStr, Begin), EventCount, Written, mem)

ScanEvents(ResponseStr, SearchPos, EventCount, Written, mem) ==
    ScanEventsFrom(ResponseStr, Find(ResponseStr, BeginVEvent, SearchPos), EventCount, Written, mem)

-----------------------------------------------------------------------------
(* Inputs: configurations, response bodies, transport outcomes *)

Configs ==
    {[ServerURL |-> <<"https", "://", "host", "/", "dav">>, Username |-> "alice",
      Password |-> "pwA", TimeoutMs |-> 5000],
     [ServerURL |-> <<"https", "://", "host2">>, Username |-> "bob",
      Password |-> "pwB", TimeoutMs |-> 3000],
     [ServerURL |-> <<"https", "://", "host">>, Username |-> "",
      Password |-> "pwA", TimeoutMs |-> 5000]}

Open(name) == <<"<", name, ">">>
Shut(name) == <<"<", "/", name, ">">>
Void(name) == <<"<", name, "/", ">">>
Elem(name, content) == Open(name) \o content \o Shut(name)

PrincipalHref == <<"/", "p", "/">>

\* the text of one fragment of a multistatus body
ListFragment(f) ==
    CASE f = "CAL" ->
           Elem("response",
                Elem("href", <<"/", "c", "/", "work", "/">>)
                \o Elem("resourcetype", Void("collection") \o <<"<", "C", ":", "calendar", "/", ">">>)
                \o Elem("displayname", <<"Work">>))
      [] f = "UCAL" ->
           Elem("response",
                Elem("href", <<"/", "c", "/", "home">>)
                \o Elem("resourcetype", Void("collection") \o Void("calendar")))
      [] f = "PRIN" ->
           Elem("response",
                Elem("href", PrincipalHref)
                \o Elem("resourcetype", Void("principal")))
      [] f = "COLL" ->
           Elem("response",
                Elem("href", <<"/", "c", "/">>)
                \o Elem("resourcetype", Void("collection")))
      [] f = "HOMESET" -> <<"<", "C", ":", "calendar", "-home-set", "/", ">">>
      [] f = "HTML" -> <<"<", "!DOCTYPE html", ">">>

ListFragments == {"CAL", "UCAL", "PRIN", "COLL", "HOMESET", "HTML"}

\* a body is named by its fragments; <<>> is a response without data, which
\* leaves Response.Buffer NULL
ListBodies == SeqsUpTo(ListFragments, MaxBlocks)

ListText(frags) == Flatten([i \in 1..Len(frags) |-> ListFragment(frags[i])])

Line(content) == content \o <<CR, LF>>

\* the text of one fragment of an iCalendar body
EventFragment(f) ==
    CASE f = "EV1" ->
           Line(BeginVEvent) \o Line(<<"UID", ":", "u1">>) \o Line(<<"SUMMARY", ":", "a">>)
           \o Line(<<"DTSTART", ":", "t1">>) \o Line(EndVEvent)
      [] f = "EV2" ->
           Line(BeginVEvent) \o Line(<<"SUMMARY", ":", "b", ":", "c">>)
           \o Line(<<"DTSTART", ";", "TZID", "=", "X", ":", "t2">>) \o Line(EndVEvent)
      [] f = "TRUNC" -> Line(BeginVEvent) \o Line(<<"UID", ":", "u3">>)
      [] f = "XML" -> <<"<", "C", ":", "calendar", "-data", ">">>

EventFragments == {"EV1", "EV2", "TRUNC", "XML"}

EventBodies == SeqsUpTo(EventFragments, MaxEvents)

EventText(frags) == Flatten([i \in 1..Len(frags) |-> EventFragment(frags[i])])

Statuses == {200, 204, 207, 401, 404}

\* a transport outcome: the result of esp_http_client_perform, the status
\* code, the body the event handler accumulated, and which allocation of the
\* operation fails (0: none, -1: the output array, k > 0: the k-th block buffer)
Outcomes(Bodies, Mems) ==
    {[err |-> "ESP_OK", status |-> s, frags |-> b, mem |-> m] :
        s \in {200, 207}, b \in Bodies \ {<<>>}, m \in Mems}
    \cup {[err |-> "ESP_OK", status |-> s, frags |-> b, mem |-> 0] : s \in {200, 207}, b \in Bodies}
    \cup {[err |-> "ESP_OK", status |-> s, frags |-> b, mem |-> 0] :
            s \in Statuses, b \in {c \in Bodies : Len(c) <= 1}}
    \cup {[err |-> "ESP_FAIL", status |-> s, frags |-> b, mem |-> 0] :
            s \in {0, 200}, b \in {c \in Bodies : Len(c) <= 1}}

ListOutcomes == Outcomes(ListBodies, {-1})
EventOutcomes == Outcomes(EventBodies, -1..MaxEvents)
TestOutcomes == Outcomes({<<>>, <<"CAL">>, <<"HTML">>}, {})

NoOutcome == [err |-> "none", status |-> 0, frags |-> <<>>, mem |-> 0]

\* values of mem for the allocations of the Response Accumulator: the
\* CUSTOM_MALLOC of the buffer fails at every event, or the buffer holds one
\* chunk and the CUSTOM_REALLOC fails at every later event
AccMallocFails == -2
AccReallocFails == -3

\* on_HTTP_Event_Handler for HTTP_EVENT_ON_DATA: the chunks in
\* Response.Buffer after the event (<<>>: Buffer is NULL).  Where an
\* allocation fails the handler returns ESP_FAIL and leaves the buffer as it
\* was; what esp_http_client_perform returns then is the err of the outcome.
on_HTTP_Event_Handler(Buffer, data, mem) ==
    IF Buffer = <<>>
    THEN IF mem = AccMallocFails THEN Buffer ELSE <<data>>
    ELSE IF mem = AccReallocFails THEN Buffer ELSE Append(Buffer, data)

\* the events of one esp_http_client_perform, a chunk each
RECURSIVE Accumulate(_, _, _)
Accumulate(Buffer, chunks, mem) ==
    IF chunks = <<>> THEN Buffer
    ELSE Accumulate(on_HTTP_Event_Handler(Buffer, Head(chunks), mem), Tail(chunks), mem)

\* the body in Response.Buffer when esp_http_client_perform has returned
Accumulated(resp) == Accumulate(<<>>, resp.frags, resp.mem)

\* mem as the operation itself meets it
OperationMem(resp) == IF resp.mem < -1 THEN 0 ELSE resp.mem

\* transport outcomes in which the accumulator cannot allocate, for the
\* bodies that begin with one of the fragments First
AccOutcomes(Bodies, First) ==
    {[err |-> e, status |-> s, frags |-> b, mem |-> m] :
        e \in {"ESP_OK", "ESP_FAIL"}, s \in {207, 404},
        b \in {c \in Bodies : c # <<>> /\ c[1] \in First},
        m \in {AccMallocFails, AccReallocFails}}

\* calendar paths handed to CalDAV_Calendar_Events_List
CalendarPaths == {<<"/", "c", "/", "work", "/">>, <<"c", "/", "work">>}

-----------------------------------------------------------------------------
(* What the parsers make of each body *)

\* Calendar Discovery on a response text: the HTML check, the pre-sizing
\* count, and the outcome of the loop over the response blocks
DiscoverCounted(ResponseStr, CalendarCount) ==
    [html |-> IsHTML(ResponseStr),
     CalendarCount |-> CalendarCount,
     Scan |-> ScanResponses(ResponseStr, 0, CalendarCount, <<>>, <<>>)]

Discover(ResponseStr) == DiscoverCounted(ResponseStr, CountCalendarTags(ResponseStr, 0, 0))

Discovery == [frags \in ListBodies |-> Discover(ListText(frags))]

\* Event Extraction on a response text under each allocation outcome
ExtractCounted(ResponseStr, EventCount) ==
    [EventCount |-> EventCount,
     Scan |-> [mem \in -1..MaxEvents |-> ScanEvents(ResponseStr, 0, EventCount, <<>>, mem)]]

Extract(ResponseStr) == ExtractCounted(ResponseStr, CountEvents(ResponseStr, 0, 0))

Extraction == [frags \in EventBodies |-> Extract(EventText(frags))]

-----------------------------------------------------------------------------
(* The session *)

\* _CalDAV_HTTP_Config before CalDAV_Client_Init: zero-initialized static
\* storage; method 0 is HTTP_METHOD_GET
ZeroConfig ==
    [url |-> NullStr, username |-> "", password |-> "", auth_type |-> "NONE",
     timeout_ms |-> 0, method |-> "GET", event_handler |-> FALSE]

EmptyList == [Calendar |-> NullArray, Length |-> 0]
NoEvents == [Events |-> NullArray, Length |-> 0]

\* the allocations of an operation call: Response.Buffer ("NULL" while the
\* handler has allocated none, then "live", then "freed"), and how many arrays
\* and strings the call allocated that are neither released nor reachable
\* through the caller's output; Ops is what the call did with an allocated
\* Response.Buffer after esp_http_client_perform, in order: "read" for a use
\* of its bytes, "free" for a CUSTOM_FREE
NoHeap == [Buffer |-> "NULL", Arrays |-> 0, Strings |-> 0, Ops |-> <<>>]

\* Response.Buffer after the CUSTOM_FREE every exit path applies to a buffer
\* that is not NULL
BufferReleased(resp) == IF Accumulated(resp) = <<>> THEN "NULL" ELSE "freed"

\* n uses of the bytes of the buffer
Reads(n) == [i \in 1..n |-> "read"]

\* CalDAV_Test_Connection releases the buffer and uses nothing of it
Test_BufferOps(resp) == IF Accumulated(resp) = <<>> THEN <<>> ELSE <<"free">>

InitSession ==
    /\ client = [ServerURL |-> <<>>, IsInitialized |-> FALSE]
    /\ HTTP_Config = ZeroConfig
    /\ pc = "idle"
    /\ requests = <<>>
    /\ lastResp = NoOutcome
    /\ result = [op |-> "none", ret |-> "none"]
    /\ calendars = EmptyList
    /\ events = NoEvents
    /\ heap = NoHeap

Init ==
    /\ InitSession
    /\ pure = [fn |-> "none"]

\* the request esp_http_client_init and the set_header / set_method calls of
\* an operation make from the shared configuration
Request(config, method, depth, override, body) ==
    [url |-> config.url, method |-> method, Depth |-> depth, Override |-> override,
     body |-> body, username |-> config.username, password |-> config.password,
     auth_type |-> config.auth_type, timeout_ms |-> config.timeout_ms]

Returns(op, ret) == result' = [op |-> op, ret |-> ret]

CalDAV_Client_Init(p_Config) ==
    /\ pc = "idle"
    /\ IF p_Config.ServerURL = <<>> \/ p_Config.Username = "" \/ p_Config.Password = ""
       THEN /\ Returns("init", "INVALID_ARG")
            /\ UNCHANGED <<client, HTTP_Config>>
       ELSE /\ HTTP_Config' =
                  [ZeroConfig EXCEPT !.event_handler = TRUE,
                                     !.username = p_Config.Username,
                                     !.password = p_Config.Password,
                                     !.auth_type = "BASIC",
                                     !.timeout_ms = p_Config.TimeoutMs]
            /\ client' = [ServerURL |-> p_Config.ServerURL, IsInitialized |-> TRUE]
            /\ Returns("init", "OK")
    /\ UNCHANGED <<pc, requests, lastResp, calendars, events, heap, pure>>

CalDAV_Client_Deinit ==
    /\ pc = "idle"
    /\ client.IsInitialized
    /\ client' = [client EXCEPT !.IsInitialized = FALSE]
    /\ Returns("deinit", "none")
    /\ UNCHANGED <<HTTP_Config, pc, requests, lastResp, calendars, events, heap, pure>>

-----------------------------------------------------------------------------
(* CalDAV_Test_Connection *)

\* a connection test that takes 204 for a failure
TestStatusAccepted_No204(StatusCode) == StatusCode \in {200, 207}

\* the status codes CalDAV_Test_Connection takes for success
TestStatusAccepted(StatusCode) == StatusCode \in {200, 204, 207}

\* the call up to esp_http_client_perform

\* a connection test that does not look at IsInitialized
CalDAV_Test_Connection_Call_Ungated(clientOk) ==
    /\ pc = "idle"
    /\ lastResp' = NoOutcome
    /\ HTTP_Config' = [HTTP_Config EXCEPT !.url = client.ServerURL]
    /\ IF ~clientOk
       THEN /\ Returns("test", "FAIL")
            /\ requests' = <<>>
            /\ UNCHANGED pc
       ELSE /\ requests' = <<Request(HTTP_Config', HTTP_Config.method, "0", "", "")>>
            /\ pc' = "test"
            /\ Returns("test", "pending")
    /\ heap' = NoHeap
    /\ UNCHANGED <<client, calendars, events, pure>>

\* the call up to esp_http_client_perform
CalDAV_Test_Connection_Call(clientOk) ==
    /\ pc = "idle"
    /\ lastResp' = NoOutcome
    /\ IF ~client.IsInitialized
       THEN /\ Returns("test", "NOT_INITIALIZED")
            /\ requests' = <<>>
            /\ UNCHANGED <<HTTP_Config, pc>>
       ELSE /\ HTTP_Config' = [HTTP_Config EXCEPT !.url = client.ServerURL]
            /\ IF ~clientOk
               THEN /\ Returns("test", "FAIL")
                    /\ requests' = <<>>
                    /\ UNCHANGED pc
               ELSE /\ requests' = <<Request(HTTP_Config', HTTP_Config.method, "0", "", "")>>
                    /\ pc' = "test"
                    /\ Returns("test", "pending")
    /\ heap' = NoHeap
    /\ UNCHANGED <<client, calendars, events, pure>>

\* the call from the return of esp_http_client_perform on
CalDAV_Test_Connection_Return(resp) ==
    /\ pc = "test"
    /\ lastResp' = resp
    /\ pc' = "idle"
    /\ Returns("test",
               IF resp.err # "ESP_OK" THEN "CONNECTION"
               ELSE IF TestStatusAccepted(resp.status) THEN "OK"
               ELSE "HTTP")
    /\ heap' = [NoHeap EXCEPT !.Buffer = BufferReleased(resp), !.Ops = Test_BufferOps(resp)]
    /\ UNCHANGED <<client, HTTP_Config, requests, calendars, events, pure>>

-----------------------------------------------------------------------------
(* CalDAV_Calendars_List *)

\* a listing that hands a 204 response to Calendar Discovery as well
ListStatusAccepted_With204(StatusCode) == StatusCode \in {200, 204, 207}

\* the status codes CalDAV_Calendars_List hands to Calendar Discovery
ListStatusAccepted(StatusCode) == StatusCode \in {200, 207}

\* the URL of the recursive call for a principal path
PrincipalURL(ServerURL, PrincipalPath) == SchemeHost(ServerURL) \o PrincipalPath

\* a list whose Length is the pre-sizing count
FilledList_Count(CalendarCount, Written) ==
    [Calendar |-> Written \o Zeroed(CalendarCount - Len(Written), ZeroCalendar),
     Length |-> CalendarCount]

\* the caller's list after the loop over the response blocks
FilledList(CalendarCount, Written) ==
    [Calendar |-> Written \o Zeroed(CalendarCount - Len(Written), ZeroCalendar),
     Length |-> Len(Written)]

\* the part of a call level that works on the response text, D being what
\* Calendar Discovery makes of it
Calendars_List_Parsed(D, mem) ==
    IF D.html THEN [ret |-> "HTTP", list |-> EmptyList, principal |-> <<>>]
    ELSE IF D.CalendarCount = 0 THEN [ret |-> "OK", list |-> EmptyList, principal |-> <<>>]
    ELSE IF mem = -1 THEN [ret |-> "NO_MEM", list |-> EmptyList, principal |-> <<>>]
    ELSE IF Len(D.Scan.Written) = 0 /\ D.Scan.PrincipalPath # <<>>
    THEN [ret |-> "recurse", list |-> FilledList(D.CalendarCount, D.Scan.Written),
          principal |-> D.Scan.PrincipalPath]
    ELSE [ret |-> "OK", list |-> FilledList(D.CalendarCount, D.Scan.Written),
          principal |-> <<>>]

\* what one call level does with the transport outcome: the error code it
\* returns ("recurse" when it calls itself for the principal path), and the
\* caller's list as it leaves it
Calendars_List_Outcome(resp, list) ==
    IF resp.err # "ESP_OK" THEN [ret |-> "HTTP", list |-> list, principal |-> <<>>]
    ELSE IF ~ListStatusAccepted(resp.status)
    THEN [ret |-> "HTTP", list |-> list, principal |-> <<>>]
    ELSE IF Accumulated(resp) = <<>>
    THEN [ret |-> "OK", list |-> EmptyList, principal |-> <<>>]
    ELSE Calendars_List_Parsed(Discovery[Accumulated(resp)], OperationMem(resp))

\* the recursive call for the principal path, made with TempClient, up to
\* its esp_http_client_perform
Calendars_List_Recurse(TempClient, PrincipalPath, clientOk) ==
    /\ HTTP_Config' = [HTTP_Config EXCEPT !.url = TempClient.ServerURL]
    /\ IF ~clientOk
       THEN /\ Returns("list", "FAIL")
            /\ pc' = "idle"
            /\ UNCHANGED requests
       ELSE /\ Len(requests) < MaxRequests
            /\ requests' = Append(requests, Request(HTTP_Config', "PROPFIND", "1", "", "propfind"))
            /\ UNCHANGED <<pc, result>>

\* the return of a call level with what it made of the transport outcome
Calendars_List_Finish(Out, clientOk) ==
    /\ calendars' = Out.list
    /\ IF Out.ret # "recurse"
       THEN /\ Returns("list", Out.ret)
            /\ pc' = "idle"
            /\ UNCHANGED <<HTTP_Config, requests>>
       ELSE Calendars_List_Recurse(
                [ServerURL |-> PrincipalURL(requests[Len(requests)].url, Out.principal)],
                Out.principal, clientOk)

\* the call up to esp_http_client_perform
CalDAV_Calendars_List_Call(listOk, clientOk) ==
    /\ pc = "idle"
    /\ lastResp' = NoOutcome
    /\ IF ~client.IsInitialized \/ ~listOk
       THEN /\ Returns("list", "INVALID_ARG")
            /\ requests' = <<>>
            /\ UNCHANGED <<HTTP_Config, pc>>
       ELSE /\ HTTP_Config' = [HTTP_Config EXCEPT !.url = client.ServerURL]
            /\ IF ~clientOk
               THEN /\ Returns("list", "FAIL")
                    /\ requests' = <<>>
                    /\ UNCHANGED pc
               ELSE /\ requests' = <<Request(HTTP_Config', "PROPFIND", "1", "", "propfind")>>
                    /\ pc' = "list"
                    /\ Returns("list", "pending")
    /\ heap' = NoHeap
    /\ UNCHANGED <<client, calendars, events, pure>>

\* the allocations after a call level (Level 1 is the caller's call): every
\* path past the status check assigns p_Calendars->Calendar, and at a
\* recursive level the pointer it assigns over is the array the level before
\* allocated
\* what a call level does with its buffer: released at once where the
\* transport failed or the status is not accepted, else logged, copied into
\* ResponseStr and released
List_BufferOps(resp) ==
    IF Accumulated(resp) = <<>> THEN <<>>
    ELSE IF resp.err # "ESP_OK" \/ ~ListStatusAccepted(resp.status) THEN <<"free">>
    ELSE Reads(2) \o <<"free">>

Calendars_List_Heap(resp, Level, before) ==
    [Buffer |-> BufferReleased(resp),
     Arrays |-> IF Level > 1 /\ resp.err = "ESP_OK" /\ ListStatusAccepted(resp.status)
                THEN before.Arrays + 1
                ELSE before.Arrays,
     Strings |-> 0,
     Ops |-> List_BufferOps(resp)]

\* the call from the return of esp_http_client_perform on, the recursive
\* call for the principal path up to its esp_http_client_perform included
CalDAV_Calendars_List_Return(resp, clientOk) ==
    /\ pc = "list"
    /\ lastResp' = resp
    /\ Calendars_List_Finish(Calendars_List_Outcome(resp, calendars), clientOk)
    /\ heap' = Calendars_List_Heap(resp, Len(requests), heap)
    /\ UNCHANGED <<client, events, pure>>

-----------------------------------------------------------------------------
(* CalDAV_Calendar_Events_List *)

\* the status codes CalDAV_Calendar_Events_List hands to Event Extraction
EventsStatusAccepted(StatusCode) == StatusCode \in {200, 207}

\* the request URL for a calendar path
\* snprintf(URL, sizeof(URL), ...): what does not fit is cut off
snprintf(Size, Text) == SubStr(Text, 0, Size)

\* a target URL that joins a relative path to the server URL as it is
EventsURL_Append(ServerURL, p_CalendarPath) ==
    IF p_CalendarPath # <<>> /\ p_CalendarPath[1] = "/"
    THEN snprintf(MaxURLLen, SchemeHost(ServerURL) \o p_CalendarPath)
    ELSE snprintf(MaxURLLen, ServerURL \o p_CalendarPath)

\* the target URL of CalDAV_Calendar_Events_List
EventsURL(ServerURL, p_CalendarPath) ==
    IF p_CalendarPath # <<>> /\ p_CalendarPath[1] = "/"
    THEN snprintf(MaxURLLen, SchemeHost(ServerURL) \o p_CalendarPath)
    ELSE snprintf(MaxURLLen, ServerURL \o <<"/">> \o p_CalendarPath)

\* the caller's array and length after the loop over the event blocks
FilledEvents(EventCount, Written) ==
    [Events |-> Written \o Zeroed(EventCount - Len(Written), ZeroEvent),
     Length |-> Len(Written)]

\* the part of the call that works on the response text, X being what Event
\* Extraction makes of it
Events_List_Parsed(X, mem, out) ==
    IF X.EventCount = 0 THEN [ret |-> "OK", out |-> NoEvents]
    ELSE IF mem = -1 THEN [ret |-> "NO_MEM", out |-> [out EXCEPT !.Events = NullArray]]
    ELSE IF X.Scan[mem].nomem THEN [ret |-> "NO_MEM", out |-> NoEvents]
    ELSE [ret |-> "OK", out |-> FilledEvents(X.EventCount, X.Scan[mem].Written)]

\* what the call does with the transport outcome: the error code it returns
\* and the caller's array pointer and length as it leaves them
Events_List_Outcome(resp, out) ==
    IF resp.err # "ESP_OK" THEN [ret |-> "HTTP", out |-> out]
    ELSE IF ~EventsStatusAccepted(resp.status) THEN [ret |-> "HTTP", out |-> out]
    ELSE IF Accumulated(resp) = <<>> THEN [ret |-> "HTTP", out |-> out]
    ELSE Events_List_Parsed(Extraction[Accumulated(resp)], OperationMem(resp), out)

\* CUSTOM_FREE(Ptr) on the set Live of live allocations; Ptr = "NULL"
\* releases nothing
CUSTOM_FREE(Live, Ptr) == IF Ptr = "NULL" THEN Live ELSE Live \ {Ptr}

EventFields == {"Summary", "Description", "Location", "UID", "StartTime", "EndTime"}

\* the strings of the first K records of the event array
RecordStrings(K) == {<<"string", i, f>> : i \in 1..K, f \in EventFields}

\* what the call has allocated, Response.Buffer aside, when the block buffer
\* after K populated records cannot be allocated
LiveAtFailure(K) == {<<"array">>} \cup RecordStrings(K)

\* the clean-up of that failure: the strings of the populated records are
\* released, *p_Events is set to NULL, and CUSTOM_FREE(*p_Events) follows
Events_Cleanup(K) == CUSTOM_FREE(LiveAtFailure(K) \ RecordStrings(K), "NULL")

\* the allocations of the call that are live and out of the caller's reach
\* after the clean-up, by kind
LeftAfterCleanup(K, kind) == Cardinality({a \in Events_Cleanup(K) : a[1] = kind})

\* a call that releases the buffer before it copies the event blocks out
\* of it
Events_ParsedOps_EarlyFree(X, mem) ==
    IF X.EventCount = 0 \/ mem = -1 THEN Reads(2) \o <<"free">>
    ELSE Reads(2) \o <<"free">> \o Reads(Len(X.Scan[mem].Written))

\* what the call does with the buffer of an accepted response: logged and
\* copied into ResponseStr, then one memcpy per event block that got its
\* block buffer, then released (on the failure paths as at the end)
Events_ParsedOps(X, mem) ==
    IF X.EventCount = 0 \/ mem = -1 THEN Reads(2) \o <<"free">>
    ELSE Reads(2) \o Reads(Len(X.Scan[mem].Written)) \o <<"free">>

\* what the call does with its buffer: logged and released where the
\* transport failed or the status is not accepted
Events_BufferOps(resp) ==
    IF Accumulated(resp) = <<>> THEN <<>>
    ELSE IF resp.err # "ESP_OK" \/ ~EventsStatusAccepted(resp.status)
    THEN Reads(1) \o <<"free">>
    ELSE Events_ParsedOps(Extraction[Accumulated(resp)], OperationMem(resp))

\* the allocations after the call
Events_List_Heap(resp, Out) ==
    IF Out.ret = "NO_MEM" /\ OperationMem(resp) > 0
    THEN [Buffer |-> "freed",
          Arrays |-> LeftAfterCleanup(OperationMem(resp) - 1, "array"),
          Strings |-> LeftAfterCleanup(OperationMem(resp) - 1, "string"),
          Ops |-> Events_BufferOps(resp)]
    ELSE [NoHeap EXCEPT !.Buffer = BufferReleased(resp), !.Ops = Events_BufferOps(resp)]

\* the return of the call with what it made of the transport outcome
Events_List_Finish(Out) ==
    /\ events' = Out.out
    /\ Returns("events", Out.ret)

\* the call up to esp_http_client_perform
CalDAV_Calendar_Events_List_Call(p_CalendarPath, argsOk, clientOk) ==
    /\ pc = "idle"
    /\ lastResp' = NoOutcome
    /\ IF ~client.IsInitialized \/ ~argsOk
       THEN /\ Returns("events", "INVALID_ARG")
            /\ requests' = <<>>
            /\ UNCHANGED <<HTTP_Config, pc>>
       ELSE /\ HTTP_Config' =
                  [HTTP_Config EXCEPT !.url = EventsURL(client.ServerURL, p_CalendarPath)]
            /\ IF ~clientOk
               THEN /\ Returns("events", "FAIL")
                    /\ requests' = <<>>
                    /\ UNCHANGED pc
               ELSE /\ requests' = <<Request(HTTP_Config', "POST", "1", "REPORT", "calendar-query")>>
                    /\ pc' = "events"
                    /\ Returns("events", "pending")
    /\ heap' = NoHeap
    /\ UNCHANGED <<client, calendars, events, pure>>

\* the call from the return of esp_http_client_perform on
CalDAV_Calendar_Events_List_Return(resp) ==
    /\ pc = "events"
    /\ lastResp' = resp
    /\ pc' = "idle"
    /\ Events_List_Finish(Events_List_Outcome(resp, events))
    /\ heap' = Events_List_Heap(resp, Events_List_Outcome(resp, events))
    /\ UNCHANGED <<client, HTTP_Config, requests, calendars, pure>>

-----------------------------------------------------------------------------
(* The client as its caller drives it *)

Next ==
    \/ \E p_Config \in Configs : CalDAV_Client_Init(p_Config)
    \/ CalDAV_Client_Deinit
    \/ \E clientOk \in BOOLEAN : CalDAV_Test_Connection_Call(clientOk)
    \/ \E resp \in TestOutcomes : CalDAV_Test_Connection_Return(resp)
    \/ \E listOk, clientOk \in BOOLEAN : CalDAV_Calendars_List_Call(listOk, clientOk)
    \/ \E resp \in ListOutcomes, clientOk \in BOOLEAN : CalDAV_Calendars_List_Return(resp, clientOk)
    \/ \E p_CalendarPath \in CalendarPaths, argsOk, clientOk \in BOOLEAN :
           CalDAV_Calendar_Events_List_Call(p_CalendarPath, argsOk, clientOk)
    \/ \E resp \in EventOutcomes : CalDAV_Calendar_Events_List_Return(resp)

Spec == Init /\ [][Next]_vars

\* a caller that only tests the connection
NextTest ==
    \/ \E p_Config \in Configs : CalDAV_Client_Init(p_Config)
    \/ CalDAV_Client_Deinit
    \/ \E clientOk \in BOOLEAN : CalDAV_Test_Connection_Call(clientOk)
    \/ \E resp \in TestOutcomes : CalDAV_Test_Connection_Return(resp)

SpecTest == Init /\ [][NextTest]_vars

\* a caller that only lists calendars
NextList ==
    \/ \E p_Config \in Configs : CalDAV_Client_Init(p_Config)
    \/ CalDAV_Client_Deinit
    \/ \E listOk, clientOk \in BOOLEAN : CalDAV_Calendars_List_Call(listOk, clientOk)
    \/ \E resp \in ListOutcomes, clientOk \in BOOLEAN : CalDAV_Calendars_List_Return(resp, clientOk)

SpecList == Init /\ [][NextList]_vars

\* a caller that only lists events
NextEvents ==
    \/ \E p_Config \in Configs : CalDAV_Client_Init(p_Config)
    \/ CalDAV_Client_Deinit
    \/ \E p_CalendarPath \in CalendarPaths, argsOk, clientOk \in BOOLEAN :
           CalDAV_Calendar_Events_List_Call(p_CalendarPath, argsOk, clientOk)
    \/ \E resp \in EventOutcomes : CalDAV_Calendar_Events_List_Return(resp)

SpecEvents == Init /\ [][NextEvents]_vars

\* the outcomes of a set in which a server answers 207 or 404 with a body
\* of at most one fragment and no allocation fails
Plain(Outs) ==
    {r \in Outs : /\ r.err = "ESP_OK" /\ r.status \in {207, 404}
                  /\ r.mem = 0 /\ Len(r.frags) <= 1}

\* a caller that uses every operation of a session, with such servers
NextLifecycle ==
    \/ \E p_Config \in Configs : CalDAV_Client_Init(p_Config)
    \/ CalDAV_Client_Deinit
    \/ \E clientOk \in BOOLEAN : CalDAV_Test_Connection_Call(clientOk)
    \/ \E resp \in Plain(TestOutcomes) : CalDAV_Test_Connection_Return(resp)
    \/ \E listOk, clientOk \in BOOLEAN : CalDAV_Calendars_List_Call(listOk, clientOk)
    \/ \E resp \in Plain(ListOutcomes), clientOk \in BOOLEAN :
           CalDAV_Calendars_List_Return(resp, clientOk)
    \/ \E p_CalendarPath \in CalendarPaths, argsOk, clientOk \in BOOLEAN :
           CalDAV_Calendar_Events_List_Call(p_CalendarPath, argsOk, clientOk)
    \/ \E resp \in Plain(EventOutcomes) : CalDAV_Calendar_Events_List_Return(resp)

SpecLifecycle == Init /\ [][NextLifecycle]_vars

\* Execution contexts and sessions.  _CalDAV_HTTP_Config is thread_local:
\* every execution context has a configuration of its own, zero until that
\* context calls CalDAV_Client_Init.  The session objects belong to the
\* callers and any context may pass any of them to an operation.  The
\* variables HTTP_Config .. heap are those of the context that is running
\* and client is the session its calls are made on; pure keeps the other
\* contexts and sessions.
Contexts == {"T1", "T2"}
Sessions == {"A", "B"}

BlankSession == [ServerURL |-> <<>>, IsInitialized |-> FALSE]

\* the configuration and call frame of a context that has called nothing
IdleFrame ==
    [HTTP_Config |-> ZeroConfig, pc |-> "idle", requests |-> <<>>,
     lastResp |-> NoOutcome, result |-> [op |-> "none", ret |-> "none"],
     calendars |-> EmptyList, events |-> NoEvents, heap |-> NoHeap, session |-> "A"]

\* the configuration and call frame of the running context
Frame ==
    [HTTP_Config |-> HTTP_Config, pc |-> pc, requests |-> requests,
     lastResp |-> lastResp, result |-> result, calendars |-> calendars,
     events |-> events, heap |-> heap, session |-> pure.session]

InitContexts ==
    /\ InitSession
    /\ pure = [fn |-> "contexts", running |-> "T1", session |-> "A",
               saved |-> [t \in Contexts |-> IdleFrame],
               sessions |-> [s \in Sessions |-> BlankSession]]

\* the session objects after the running context turns from session `from`
\* to session `to`
Sessions_Turn(from, to) ==
    IF from = to THEN pure.sessions
    ELSE [pure.sessions EXCEPT ![from] = client, ![to] = BlankSession]

\* the scheduler runs context t: nothing in the client keeps a context from
\* running while another is inside esp_http_client_perform
Switch_Context(t) ==
    /\ t # pure.running
    /\ HTTP_Config' = pure.saved[t].HTTP_Config
    /\ pc' = pure.saved[t].pc
    /\ requests' = pure.saved[t].requests
    /\ lastResp' = pure.saved[t].lastResp
    /\ result' = pure.saved[t].result
    /\ calendars' = pure.saved[t].calendars
    /\ events' = pure.saved[t].events
    /\ heap' = pure.saved[t].heap
    /\ client' = IF pure.saved[t].session = pure.session THEN client
                 ELSE pure.sessions[pure.saved[t].session]
    /\ pure' = [pure EXCEPT !.running = t,
                            !.session = pure.saved[t].session,
                            !.saved = [@ EXCEPT ![pure.running] = Frame, ![t] = IdleFrame],
                            !.sessions = Sessions_Turn(pure.session, pure.saved[t].session)]

\* the running context passes session s as p_Client to the calls it makes
\* from now on
Select_Session(s) ==
    /\ pc = "idle"
    /\ s # pure.session
    /\ client' = pure.sessions[s]
    /\ pure' = [pure EXCEPT !.session = s, !.sessions = Sessions_Turn(pure.session, s)]
    /\ UNCHANGED <<HTTP_Config, pc, requests, lastResp, result, calendars, events, heap>>

\* the outcomes of a set in which a server answers 207 with one calendar
Answered(Outs) == {r \in Plain(Outs) : r.status = 207 /\ r.frags = <<"CAL">>}

\* the configurations CalDAV_Client_Init accepts
ValidConfigs ==
    {c \in Configs : c.ServerURL # <<>> /\ c.Username # "" /\ c.Password # ""}

\* callers in two execution contexts that initialize two sessions, test the
\* connection and list the calendars
NextContexts ==
    \/ \E p_Config \in ValidConfigs : CalDAV_Client_Init(p_Config)
    \/ CalDAV_Test_Connection_Call(TRUE)
    \/ \E resp \in Answered(TestOutcomes) : CalDAV_Test_Connection_Return(resp)
    \/ CalDAV_Calendars_List_Call(TRUE, TRUE)
    \/ \E resp \in Answered(ListOutcomes) : CalDAV_Calendars_List_Return(resp, TRUE)
    \/ \E t \in Contexts : Switch_Context(t)
    \/ \E s \in Sessions : Select_Session(s)

SpecContexts == InitContexts /\ [][NextContexts]_vars

\* the outcomes of a set with a body of at most one fragment
Short(Outs) == {r \in Outs : Len(r.frags) <= 1}

\* the outcomes of a set with two event blocks, the second one whole or cut
TwoBlocks(Outs) == {r \in Outs : r.frags \in {<<"EV1", "EV2">>, <<"EV1", "TRUNC">>}}

\* a caller that uses the three operations of an initialized session with
\* servers and transports of every kind, allocations failing in the
\* accumulator and in the operations
NextLifetime ==
    \/ \E p_Config \in ValidConfigs : CalDAV_Client_Init(p_Config)
    \/ CalDAV_Test_Connection_Call(TRUE)
    \/ \E resp \in TestOutcomes : CalDAV_Test_Connection_Return(resp)
    \/ CalDAV_Calendars_List_Call(TRUE, TRUE)
    \/ \E resp \in Short(ListOutcomes) \cup Short(AccOutcomes(ListBodies, {"PRIN"})) :
           CalDAV_Calendars_List_Return(resp, TRUE)
    \/ \E p_CalendarPath \in CalendarPaths :
           CalDAV_Calendar_Events_List_Call(p_CalendarPath, TRUE, TRUE)
    \/ \E resp \in Short(EventOutcomes) \cup TwoBlocks(EventOutcomes)
                     \cup TwoBlocks(AccOutcomes(EventBodies, {"EV1"})) :
           CalDAV_Calendar_Events_List_Return(resp)

SpecLifetime == Init /\ [][NextLifetime]_vars

\* CalDAV_Calendars_Free on the caller's list: the strings of the first
\* Length records and the array are handed to CUSTOM_FREE; the list itself
\* is not written.  pure counts the calls and how often the array went to
\* CUSTOM_FREE.
CalDAV_Calendars_Free(listOk) ==
    /\ pc = "idle"
    /\ pure.fn = "free"
    /\ pure.frees < MaxFrees
    /\ result.op \in {"list", "free"}
    /\ result.ret \in {"OK", "none"}
    /\ pure' = IF ~listOk THEN pure
               ELSE [pure EXCEPT !.frees = @ + 1,
                                 !.arrayFreed = IF calendars.Calendar = NullArray THEN @
                                                ELSE @ + 1]
    /\ Returns("free", "none")
    /\ UNCHANGED <<client, HTTP_Config, pc, requests, lastResp, calendars, events, heap>>

InitFree ==
    /\ InitSession
    /\ pure = [fn |-> "free", frees |-> 0, arrayFreed |-> 0]

\* a caller that lists the calendars and then frees the list, more than once
NextFree ==
    \/ \E p_Config \in ValidConfigs : CalDAV_Client_Init(p_Config)
    \/ pure.frees = 0 /\ CalDAV_Calendars_List_Call(TRUE, TRUE)
    \/ \E resp \in ListOutcomes : CalDAV_Calendars_List_Return(resp, TRUE)
    \/ \E listOk \in BOOLEAN : CalDAV_Calendars_Free(listOk)

SpecFree == InitFree /\ [][NextFree]_vars

\* a caller that hands an empty list and an empty event array to the
\* listings, with arguments and sessions of every kind
NextFrame ==
    \/ \E p_Config \in ValidConfigs : CalDAV_Client_Init(p_Config)
    \/ CalDAV_Client_Deinit
    \/ /\ calendars = EmptyList
       /\ \E listOk, clientOk \in BOOLEAN : CalDAV_Calendars_List_Call(listOk, clientOk)
    \/ \E resp \in ListOutcomes : CalDAV_Calendars_List_Return(resp, TRUE)
    \/ /\ events = NoEvents
       /\ \E p_CalendarPath \in CalendarPaths, argsOk, clientOk \in BOOLEAN :
              CalDAV_Calendar_Events_List_Call(p_CalendarPath, argsOk, clientOk)
    \/ \E resp \in Short(EventOutcomes) : CalDAV_Calendar_Events_List_Return(resp)

SpecFrame == Init /\ [][NextFrame]_vars

\* a caller that lists calendars and events while the Response Accumulator
\* cannot allocate
NextAccumulator ==
    \/ \E p_Config \in Configs : CalDAV_Client_Init(p_Config)
    \/ CalDAV_Client_Deinit
    \/ \E listOk, clientOk \in BOOLEAN : CalDAV_Calendars_List_Call(listOk, clientOk)
    \/ \E resp \in AccOutcomes(ListBodies, {"CAL", "PRIN"}), clientOk \in BOOLEAN :
           CalDAV_Calendars_List_Return(resp, clientOk)
    \/ \E p_CalendarPath \in CalendarPaths, argsOk, clientOk \in BOOLEAN :
           CalDAV_Calendar_Events_List_Call(p_CalendarPath, argsOk, clientOk)
    \/ \E resp \in AccOutcomes(EventBodies, {"EV1"}) : CalDAV_Calendar_Events_List_Return(resp)

SpecAccumulator == Init /\ [][NextAccumulator]_vars

-----------------------------------------------------------------------------
(* The extractors applied on their own to synthesized text *)

\* KEY:VALUE CR LF for a key and a value without line ends
ICalKeys == {"SUMMARY", "UID"}
ICalValues == SeqsUpTo({"a", ":", " "}, MaxValueLen)
ICalLine(key, value) == <<key, ":">> \o value \o <<CR, LF>>

InitICal ==
    /\ InitSession
    /\ pure \in {[fn |-> "ical", key |-> k, value |-> v, done |-> FALSE, out |-> <<>>] :
                    k \in ICalKeys, v \in ICalValues}

ApplyICal ==
    /\ pure.fn = "ical"
    /\ ~pure.done
    /\ pure' = [pure EXCEPT !.done = TRUE,
                            !.out = CalDAV_Extract_iCal_Field(ICalLine(pure.key, pure.value),
                                                              <<pure.key, ":">>)]
    /\ UNCHANGED <<client, HTTP_Config, pc, requests, lastResp, result, calendars, events, heap>>

SpecICal == InitICal /\ [][ApplyICal]_vars

\* The Response Accumulator byte by byte.  Response is the
\* HTTP_Response_Buffer_t of one operation: Allocated tells Buffer from NULL,
\* Bytes are the bytes of the allocation (index 0 first), each a data byte
\* "d", a written 0 or a byte "?" nothing was written to.  The heap gives
\* out at most MaxBufferSize bytes.
NoResponse == [Allocated |-> FALSE, Bytes |-> <<>>, Size |-> 0, Position |-> 0]

\* CUSTOM_MALLOC(Size): a new allocation
Malloced(Size) == [i \in 1..Size |-> "?"]

\* CUSTOM_REALLOC(Ptr, NewSize): the bytes written so far are kept
Realloced(Bytes, NewSize) ==
    [i \in 1..NewSize |-> IF i <= Len(Bytes) THEN Bytes[i] ELSE "?"]

\* an expansion test that lets a chunk fill the buffer to its last byte
MustExpand_Full(Position, data_len, Size) == Position + data_len > Size

\* the test for the expansion of the buffer
MustExpand(Position, data_len, Size) == Position + data_len >= Size

\* the doubling loop: NewSize once Position + data_len is below it
RECURSIVE Doubled(_, _)
Doubled(NewSize, Needed) ==
    IF Needed >= NewSize THEN Doubled(NewSize * 2, Needed) ELSE NewSize

\* memcpy of data_len data bytes to Position, and the 0 after them; a write
\* past the allocation leaves the bytes of the allocation as they are
Copied(Bytes, Position, data_len) ==
    [i \in 1..Len(Bytes) |->
        IF i > Position /\ i <= Position + data_len THEN "d"
        ELSE IF i = Position + data_len + 1 THEN 0
        ELSE Bytes[i]]

\* the handler from the copy on
Handler_Copy(R, data_len) ==
    [ret |-> "ESP_OK",
     Response |-> [R EXCEPT !.Bytes = Copied(R.Bytes, R.Position, data_len),
                            !.Position = R.Position + data_len]]

\* the handler from the expansion test on, reallocOk telling whether
\* CUSTOM_REALLOC gives memory
Handler_Expand(R, data_len, reallocOk) ==
    IF ~MustExpand(R.Position, data_len, R.Size) THEN Handler_Copy(R, data_len)
    ELSE IF ~reallocOk \/ Doubled(R.Size * 2, R.Position + data_len) > MaxBufferSize
    THEN [ret |-> "ESP_FAIL", Response |-> R]
    ELSE Handler_Copy(
             [R EXCEPT !.Bytes = Realloced(R.Bytes, Doubled(R.Size * 2, R.Position + data_len)),
                       !.Size = Doubled(R.Size * 2, R.Position + data_len)],
             data_len)

\* on_HTTP_Event_Handler for one HTTP_EVENT_ON_DATA of data_len bytes, with
\* CONFIG_ESP32_CALDAV_BUFFER_LENGTH = Length
Handler_OnData(R, Length, data_len, mallocOk, reallocOk) ==
    IF R.Allocated THEN Handler_Expand(R, data_len, reallocOk)
    ELSE IF ~mallocOk
    THEN [ret |-> "ESP_FAIL",
          Response |-> [Allocated |-> FALSE, Bytes |-> <<>>, Size |-> Length, Position |-> 0]]
    ELSE Handler_Expand([Allocated |-> TRUE, Bytes |-> Malloced(Length), Size |-> Length,
                         Position |-> 0],
                        data_len, reallocOk)

InitBuffer ==
    /\ InitSession
    /\ pure \in {[fn |-> "buffer", Length |-> n, Response |-> NoResponse, ret |-> "none"] :
                    n \in 1..MaxBufferLength}

\* the transport delivers one chunk
ApplyOnData(data_len, mallocOk, reallocOk) ==
    /\ pure.fn = "buffer"
    /\ pure' = [pure EXCEPT
                   !.ret = Handler_OnData(pure.Response, pure.Length, data_len,
                                          mallocOk, reallocOk).ret,
                   !.Response = Handler_OnData(pure.Response, pure.Length, data_len,
                                               mallocOk, reallocOk).Response]
    /\ UNCHANGED <<client, HTTP_Config, pc, requests, lastResp, result, calendars, events, heap>>

NextBuffer ==
    \E data_len \in 0..MaxChunk, mallocOk, reallocOk \in BOOLEAN :
        ApplyOnData(data_len, mallocOk, reallocOk)

SpecBuffer == InitBuffer /\ [][NextBuffer]_vars

\* the name derivation of CalDAV_Calendars_List for the non-empty hrefs over
\* a slash and two kinds of characters
Hrefs == SeqsUpTo({"/", "c", "work"}, MaxHrefLen) \ {<<>>}

InitName ==
    /\ InitSession
    /\ pure \in {[fn |-> "name", href |-> h, done |-> FALSE, out |-> NullStr] : h \in Hrefs}

ApplyName ==
    /\ pure.fn = "name"
    /\ ~pure.done
    /\ pure' = [pure EXCEPT !.done = TRUE, !.out = NameFromHref(pure.href)]
    /\ UNCHANGED <<client, HTTP_Config, pc, requests, lastResp, result, calendars, events, heap>>

SpecName == InitName /\ [][ApplyName]_vars

\* the scan loops of CalDAV_Calendars_List and CalDAV_Calendar_Events_List
\* on a calendar body and an event body: the slots the pre-sizing counts
\* allocate and the records the loops write, block buffer mem failing
InitScan ==
    /\ InitSession
    /\ pure \in {[fn |-> "scan", list |-> b, events |-> e, mem |-> m, done |-> FALSE,
                  CalendarCount |-> 0, CurrentCalendar |-> 0,
                  EventCount |-> 0, CurrentEvent |-> 0] :
                    b \in ListBodies, e \in EventBodies, m \in 0..MaxEvents}

ApplyScan ==
    /\ pure.fn = "scan"
    /\ ~pure.done
    /\ pure' = [pure EXCEPT
                   !.done = TRUE,
                   !.CalendarCount = Discovery[pure.list].CalendarCount,
                   !.CurrentCalendar = Len(Discovery[pure.list].Scan.Written),
                   !.EventCount = Extraction[pure.events].EventCount,
                   !.CurrentEvent = Len(Extraction[pure.events].Scan[pure.mem].Written)]
    /\ UNCHANGED <<client, HTTP_Config, pc, requests, lastResp, result, calendars, events, heap>>

SpecScan == InitScan /\ [][ApplyScan]_vars

\* the target URL of CalDAV_Calendar_Events_List for server URLs with and
\* without a scheme, a path and a slash at the end, and calendar paths up to
\* ones the URL buffer does not hold
URLServers ==
    {<<"https", "://", "host", "/", "dav">>, <<"https", "://", "host">>,
     <<"https", "://", "host", "/">>, <<"host", "/", "dav">>,
     <<"https", "://", "host", "/", "dav", "/", "cal", "/">>}
URLPaths ==
    SeqsUpTo({"/", "c", "work"}, MaxTextLen)
        \cup {<<"/", "c", "/", "work", "/", "c", "/", "work", "/">>,
              <<"c", "/", "work", "/", "c", "/", "work", "/", "c">>}

InitURL ==
    /\ InitSession
    /\ pure \in {[fn |-> "url", server |-> u, path |-> q, done |-> FALSE, out |-> <<>>] :
                    u \in URLServers, q \in URLPaths}

ApplyURL ==
    /\ pure.fn = "url"
    /\ ~pure.done
    /\ pure' = [pure EXCEPT !.done = TRUE, !.out = EventsURL(pure.server, pure.path)]
    /\ UNCHANGED <<client, HTTP_Config, pc, requests, lastResp, result, calendars, events, heap>>

SpecURL == InitURL /\ [][ApplyURL]_vars

\* a displayname element whose opening and closing tag carry a prefix each
\* ("" for none) around a text without tags
XMLPrefixes == {"", "D", "ns1"}
XMLTexts == SeqsUpTo({"x", ":", " "}, MaxTextLen)
XMLTag(slash, prefix, name) ==
    <<"<">> \o slash \o (IF prefix = "" THEN <<>> ELSE <<prefix, ":">>) \o <<name, ">">>
XMLElement(open, close, text) ==
    XMLTag(<<>>, open, "displayname") \o text \o XMLTag(<<"/">>, close, "displayname")

InitXML ==
    /\ InitSession
    /\ pure \in {[fn |-> "xml", open |-> o, close |-> c, text |-> t, done |-> FALSE, out |-> <<>>] :
                    o \in XMLPrefixes, c \in XMLPrefixes, t \in XMLTexts}

ApplyXML ==
    /\ pure.fn = "xml"
    /\ ~pure.done
    /\ pure' = [pure EXCEPT !.done = TRUE,
                            !.out = CalDAV_Extract_XML_Tag_Value(
                                        XMLElement(pure.open, pure.close, pure.text),
                                        <<"displayname">>)]
    /\ UNCHANGED <<client, HTTP_Config, pc, requests, lastResp, result, calendars, events, heap>>

SpecXML == InitXML /\ [][ApplyXML]_vars

-----------------------------------------------------------------------------
(* CalDAV_Calendar_Find_By_Name applied to a list *)

\* a match on Name alone
Matches_NameOnly(Record, p_Name) == Record.Name # NullStr /\ Record.Name = p_Name

\* the two strcmp of one loop round; a NULL field is not compared
Matches(Record, p_Name) ==
    \/ Record.Name # NullStr /\ Record.Name = p_Name
    \/ Record.DisplayName # NullStr /\ Record.DisplayName = p_Name

\* the loop from index i on; *pp_Calendar is the 1-based slot pointed to,
\* 0 for NULL
RECURSIVE FindFrom(_, _, _)
FindFrom(p_Calendars, p_Name, i) ==
    IF ~(i < p_Calendars.Length) THEN [ret |-> "NOT_FOUND", pp_Calendar |-> 0]
    ELSE IF Matches(p_Calendars.Calendar[i + 1], p_Name)
    THEN [ret |-> "OK", pp_Calendar |-> i + 1]
    ELSE FindFrom(p_Calendars, p_Name, i + 1)

\* null names the argument that is NULL ("none": all three are given);
\* before is what *pp_Calendar held
CalDAV_Calendar_Find_By_Name(p_Calendars, p_Name, null, before) ==
    IF null # "none" THEN [ret |-> "INVALID_ARG", pp_Calendar |-> before]
    ELSE FindFrom(p_Calendars, p_Name, 0)

\* lists as CalDAV_Calendars_List leaves them: Length populated slots, then
\* zeroed ones
FindStrings == {<<"Work">>, <<"work">>, <<"Home">>}
FindRecords ==
    {[ZeroCalendar EXCEPT !.Name = n, !.DisplayName = d] :
        n \in {NullStr, <<"Work">>, <<"work">>}, d \in {NullStr, <<"Work">>, <<"Home">>}}
FindLists ==
    {[Calendar |-> c \o Zeroed(z, ZeroCalendar), Length |-> Len(c)] :
        c \in SeqsUpTo(FindRecords, MaxList), z \in 0..1}
FindArgs == {"none", "p_Calendars", "p_Name", "pp_Calendar"}

\* *pp_Calendar before the call: a stale pointer
Stale == 9

InitFind ==
    /\ InitSession
    /\ pure \in {[fn |-> "find", list |-> l, name |-> n, null |-> a, done |-> FALSE,
                   ret |-> "none", out |-> Stale] :
                    l \in FindLists, n \in FindStrings, a \in FindArgs}

ApplyFind ==
    /\ pure.fn = "find"
    /\ ~pure.done
    /\ pure' = [pure EXCEPT
                   !.done = TRUE,
                   !.ret = CalDAV_Calendar_Find_By_Name(pure.list, pure.name, pure.null,
                                                        pure.out).ret,
                   !.out = CalDAV_Calendar_Find_By_Name(pure.list, pure.name, pure.null,
                                                        pure.out).pp_Calendar]
    /\ UNCHANGED <<client, HTTP_Config, pc, requests, lastResp, result, calendars, events, heap>>

SpecFind == InitFind /\ [][ApplyFind]_vars

-----------------------------------------------------------------------------
(* Properties of CalDAV_Calendar_Find_By_Name *)

\* the slots of a list whose Name or DisplayName is the name looked for
MatchingSlots(list, name) ==
    {i \in 1..list.Length : list.Calendar[i].Name = name \/ list.Calendar[i].DisplayName = name}

\* C17: with a NULL argument the call returns CALDAV_ERROR_INVALID_ARG;
\* otherwise it returns CALDAV_ERROR_OK and the first slot in list order
\* whose Name or DisplayName equals p_Name, or CALDAV_ERROR_NOT_FOUND and
\* NULL when no slot matches on either field.
C17_FindByName ==
    (pure.fn = "find" /\ pure.done) =>
        IF pure.null # "none" THEN pure.ret = "INVALID_ARG"
        ELSE IF MatchingSlots(pure.list, pure.name) = {}
        THEN pure.ret = "NOT_FOUND" /\ pure.out = 0
        ELSE /\ pure.ret = "OK"
             /\ pure.out \in MatchingSlots(pure.list, pure.name)
             /\ \A i \in MatchingSlots(pure.list, pure.name) : pure.out <= i

\* the call has returned the first of two matching slots, which matches by
\* its DisplayName while its Name differs in case only
C17_Witness ==
    /\ pure.fn = "find" /\ pure.done
    /\ pure.name = <<"Work">>
    /\ pure.ret = "OK" /\ pure.out = 1
    /\ pure.list.Length = 2
    /\ pure.list.Calendar[1].Name = <<"work">>
    /\ pure.list.Calendar[1].DisplayName = <<"Work">>
    /\ pure.list.Calendar[2].Name = <<"Work">>

-----------------------------------------------------------------------------
(* Properties of CalDAV_Calendars_List *)

\* how often fragment f occurs in a body
Count(frags, f) == Cardinality({i \in 1..Len(frags) : frags[i] = f})

\* the transport succeeded with a status that CalDAV_Calendars_List accepts
ListAccepted(resp) == resp.err = "ESP_OK" /\ resp.status \in {200, 207}

\* a body with one principal-typed response block, no calendar-typed one
\* and no HTML marker
PrincipalOnly(frags) ==
    /\ Count(frags, "PRIN") = 1
    /\ Count(frags, "CAL") = 0 /\ Count(frags, "UCAL") = 0 /\ Count(frags, "HTML") = 0

\* a body without HTML marker, without calendar-typed and without
\* principal-typed response block, the response without data included
NothingToList(frags) ==
    /\ Count(frags, "PRIN") = 0
    /\ Count(frags, "CAL") = 0 /\ Count(frags, "UCAL") = 0 /\ Count(frags, "HTML") = 0

\* C1 as the claim states it: when the response to the first request of a
\* call is accepted and its body holds one principal-typed block with href P
\* and no calendar-typed block, the call goes on with a second request, to
\* scheme://host of the first request's URL followed by P (allocation and
\* esp_http_client_init taken to succeed).
C1_FallbackIssued ==
    [][(/\ pc = "list"
        /\ Len(requests) = 1
        /\ ListAccepted(lastResp')
        /\ lastResp'.mem = 0
        /\ PrincipalOnly(lastResp'.frags)
        /\ result'.ret # "FAIL")
       => (/\ pc' = "list"
           /\ Len(requests') = 2
           /\ requests'[2].url = SchemeHost(requests[1].url) \o PrincipalHref)]_vars

\* C2 as the claim states it: one call to CalDAV_Calendars_List issues at
\* most two requests, whatever the server answers.
C2_AtMostTwoRequests == Len(requests) <= 2

\* C6: a response with status 200 or 207 whose body holds <!DOCTYPE html>
\* ends the call with CALDAV_ERROR_HTTP, Length 0 and Calendar NULL, and
\* without another request, whatever else the body holds and whichever
\* request of the call it answers.
C6_HTMLGuard ==
    [][(/\ pc = "list"
        /\ ListAccepted(lastResp')
        /\ Count(lastResp'.frags, "HTML") > 0)
       => (/\ pc' = "idle"
           /\ result' = [op |-> "list", ret |-> "HTTP"]
           /\ calendars' = EmptyList
           /\ requests' = requests)]_vars

\* a listing has returned CALDAV_ERROR_HTTP for a 207 response whose body
\* holds a calendar block and the HTML marker
C6_Witness ==
    /\ pc = "idle"
    /\ result = [op |-> "list", ret |-> "HTTP"]
    /\ lastResp.err = "ESP_OK" /\ lastResp.status = 207
    /\ lastResp.frags = <<"CAL", "HTML">>
    /\ calendars = EmptyList

\* C7 as the claim states it: an accepted response whose body has no HTML
\* marker, no calendar-typed and no principal-typed block ends the call with
\* CALDAV_ERROR_OK and Length 0.
C7_AlwaysOK ==
    [][(/\ pc = "list"
        /\ ListAccepted(lastResp')
        /\ NothingToList(lastResp'.frags))
       => (/\ pc' = "idle"
           /\ result' = [op |-> "list", ret |-> "OK"]
           /\ calendars'.Length = 0)]_vars

\* C7, amended: such a response ends the call without another request and
\* with Length 0; the call returns CALDAV_ERROR_OK, or CALDAV_ERROR_NO_MEM
\* with Calendar NULL when the array sized by the tag count cannot be
\* allocated; it never returns CALDAV_ERROR_HTTP.
C7_EmptyNotHTTPError ==
    [][(/\ pc = "list"
        /\ ListAccepted(lastResp')
        /\ NothingToList(lastResp'.frags))
       => (/\ pc' = "idle"
           /\ requests' = requests
           /\ calendars'.Length = 0
           /\ result'.op = "list"
           /\ result'.ret \in {"OK", "NO_MEM"}
           /\ (result'.ret = "NO_MEM"
                 => lastResp'.mem = -1 /\ calendars'.Calendar = NullArray))]_vars

\* a listing has returned CALDAV_ERROR_OK with Length 0 for a body with a
\* plain collection and a calendar-home-set property, for which the array
\* was allocated
C7_Witness ==
    /\ pc = "idle"
    /\ result = [op |-> "list", ret |-> "OK"]
    /\ ListAccepted(lastResp)
    /\ lastResp.frags = <<"COLL", "HOMESET">>
    /\ calendars.Length = 0
    /\ calendars.Calendar # NullArray

\* C9: a response with a status other than 200 and 207 ends the call with
\* CALDAV_ERROR_HTTP, leaves the caller's list as it was (no record is
\* produced) and is followed by no other request, whatever the body holds.
C9_ListStatusGate ==
    [][(/\ pc = "list"
        /\ lastResp'.err = "ESP_OK"
        /\ lastResp'.status \notin {200, 207})
       => (/\ pc' = "idle"
           /\ result' = [op |-> "list", ret |-> "HTTP"]
           /\ calendars' = calendars
           /\ requests' = requests)]_vars

\* a listing has returned CALDAV_ERROR_HTTP for a 204 response whose body
\* holds a calendar block
C9_Witness ==
    /\ pc = "idle"
    /\ result = [op |-> "list", ret |-> "HTTP"]
    /\ lastResp.err = "ESP_OK" /\ lastResp.status = 204
    /\ lastResp.frags = <<"CAL">>
    /\ calendars = EmptyList

\* C16: after every return of CalDAV_Calendars_List with CALDAV_ERROR_OK,
\* the slots of the array that hold a record are the first Length ones:
\* Length is the number of records written, and the slots the pre-sizing
\* count allocated beyond them are zeroed and not counted.
C16_LengthIsPopulated ==
    (/\ pc = "idle"
     /\ result = [op |-> "list", ret |-> "OK"])
    => (/\ calendars.Length <= Len(calendars.Calendar)
        /\ \A i \in 1..Len(calendars.Calendar) :
               (i <= calendars.Length) <=> (calendars.Calendar[i] # ZeroCalendar))

\* a listing has returned one calendar in an array of two slots, the count
\* having taken a calendar-home-set tag for a second calendar
C16_Witness ==
    /\ pc = "idle"
    /\ result = [op |-> "list", ret |-> "OK"]
    /\ lastResp.frags = <<"CAL", "HOMESET">>
    /\ calendars.Length = 1
    /\ Len(calendars.Calendar) = 2
    /\ calendars.Calendar[1].Path = <<"/", "c", "/", "work", "/">>
    /\ calendars.Calendar[2] = ZeroCalendar

\* the hrefs of the calendar-typed response blocks of a body, in body order
RECURSIVE CalendarHrefs(_)
CalendarHrefs(frags) ==
    IF frags = <<>> THEN <<>>
    ELSE (IF Head(frags) = "CAL" THEN <<(<<"/", "c", "/", "work", "/">>)>>
          ELSE IF Head(frags) = "UCAL" THEN <<(<<"/", "c", "/", "home">>)>>
          ELSE <<>>)
         \o CalendarHrefs(Tail(frags))

\* C24 as the claim states it: every response block of an accepted body whose
\* resourcetype holds a calendar marker, prefixed or not, yields one record
\* of the returned list, in body order (no allocation failing).
C24_NoCalendarDropped ==
    (/\ pc = "idle"
     /\ result.op = "list"
     /\ ListAccepted(lastResp)
     /\ lastResp.mem = 0
     /\ Count(lastResp.frags, "HTML") = 0)
    => (/\ result.ret = "OK"
        /\ calendars.Length = Len(CalendarHrefs(lastResp.frags))
        /\ \A i \in 1..calendars.Length :
               calendars.Calendar[i].Path = CalendarHrefs(lastResp.frags)[i])

\* the positions of the characters of an href that are no slash
NonSlash(Href) == {i \in 1..Len(Href) : Href[i] # "/"}

\* the positions of the slashes before position i
SlashesBefore(Href, i) == {j \in 1..(i - 1) : Href[j] = "/"}

\* the segment that ends at position Last
SegmentTo(Href, Last) ==
    SubSeq(Href,
           IF SlashesBefore(Href, Last) = {} THEN 1 ELSE SetMax(SlashesBefore(Href, Last)) + 1,
           Last)

\* the last non-empty '/'-separated segment of an href that has one
LastSegment(Href) == SegmentTo(Href, SetMax(NonSlash(Href)))

\* C25 as the claim states it: the Name of a record is the last non-empty
\* '/'-separated segment of its non-empty href, with or without a leading
\* slash, and never an empty string.
C25_NameIsLastSegment ==
    (pure.fn = "name" /\ pure.done) =>
        /\ pure.out # <<>>
        /\ NonSlash(pure.href) # {} => pure.out = LastSegment(pure.href)

\* C27 as the claim states it: after CalDAV_Calendars_List has returned,
\* every array the call allocated is reachable through the caller's list or
\* has been freed, the array of a first pass that took the principal
\* fallback included.
C27_NoLeakAcrossFallback ==
    (pc = "idle" /\ result.op = "list") => heap.Arrays = 0

\* C29 as the claim states it: after CalDAV_Calendars_Free was called on a
\* list that CalDAV_Calendars_List returned, the list is empty (Length 0,
\* Calendar NULL), and however often it is called the array is released at
\* most once.
C29_FreeIdempotent ==
    (pure.fn = "free" /\ pure.frees > 0) =>
        (calendars = EmptyList /\ pure.arrayFreed <= 1)

\* C11 as the claim states it: an operation whose transport reported a
\* failure has returned CALDAV_ERROR_CONNECTION, whatever the status code.
C11_TransportFailure ==
    (/\ pc = "idle"
     /\ result.op \in {"test", "list", "events"}
     /\ lastResp.err = "ESP_FAIL")
    => result.ret = "CONNECTION"

-----------------------------------------------------------------------------
(* Properties of CalDAV_Calendar_Events_List *)

\* the well-formed event blocks of a body, in body order
EventBlocks(frags) == SelectSeq(frags, LAMBDA f : f \in {"EV1", "EV2"})

\* the text of a well-formed block from BEGIN:VEVENT to END:VEVENT
BlockText(f) == SubStr(EventFragment(f), 0, Len(EventFragment(f)) - 2)

\* the records for a sequence of well-formed blocks
BlockRecords(blocks) == [i \in 1..Len(blocks) |-> EventRecord(BlockText(blocks[i]))]

\* C3: after a call whose response was accepted and carried a body with N
\* well-formed event blocks and no truncated one, no allocation failing, the
\* call has returned CALDAV_ERROR_OK, Length is N, and record i holds what
\* the fields of the i-th block of the body give, in body order.
C3_EventCountExact ==
    (/\ pc = "idle"
     /\ result.op = "events"
     /\ lastResp.err = "ESP_OK" /\ lastResp.status \in {200, 207}
     /\ lastResp.mem = 0
     /\ lastResp.frags # <<>>
     /\ Count(lastResp.frags, "TRUNC") = 0)
    => (/\ result.ret = "OK"
        /\ events.Length = Len(EventBlocks(lastResp.frags))
        /\ events.Events = BlockRecords(EventBlocks(lastResp.frags)))

\* the call has returned two records for a body of two different blocks
C3_Witness ==
    /\ pc = "idle"
    /\ result = [op |-> "events", ret |-> "OK"]
    /\ lastResp.frags = <<"EV2", "EV1">>
    /\ lastResp.mem = 0
    /\ events.Length = 2
    /\ events.Events[1].StartTime = <<"t2">>
    /\ events.Events[2].UID = <<"u1">>

\* C12 as the claim states it: when the call has returned
\* CALDAV_ERROR_NO_MEM because a block buffer could not be allocated, the
\* response buffer is released and no array and no string allocated by the
\* call is left live and out of the caller's reach.
C12_NoLeakOnPartialFailure ==
    (/\ pc = "idle"
     /\ result = [op |-> "events", ret |-> "NO_MEM"]
     /\ lastResp.mem > 0)
    => (/\ heap.Buffer = "freed"
        /\ heap.Strings = 0
        /\ heap.Arrays = 0)

\* C14 as the claim states it: after a call whose response had an accepted
\* status and a body without BEGIN:VEVENT, the response without data
\* included, the call has returned CALDAV_ERROR_OK with Length 0 and a NULL
\* array.
C14_ZeroEventsOK ==
    (/\ pc = "idle"
     /\ result.op = "events"
     /\ lastResp.err = "ESP_OK" /\ lastResp.status = 207
     /\ Count(lastResp.frags, "EV1") = 0
     /\ Count(lastResp.frags, "EV2") = 0
     /\ Count(lastResp.frags, "TRUNC") = 0)
    => (result.ret = "OK" /\ events = NoEvents)

\* a body of k complete blocks followed by a BEGIN:VEVENT without END:VEVENT
TruncatedStream(frags) ==
    /\ frags # <<>>
    /\ frags[Len(frags)] = "TRUNC"
    /\ \A i \in 1..(Len(frags) - 1) : frags[i] \in {"EV1", "EV2"}

\* a response with such a body and an accepted status has been consumed
TruncatedConsumed ==
    /\ pc = "idle"
    /\ result.op = "events"
    /\ lastResp.err = "ESP_OK" /\ lastResp.status \in {200, 207}
    /\ TruncatedStream(lastResp.frags)

\* the call has returned the k complete events of the body in order
PartialResult ==
    /\ result.ret = "OK"
    /\ events.Length = Len(lastResp.frags) - 1
    /\ SubSeq(events.Events, 1, events.Length) = BlockRecords(EventBlocks(lastResp.frags))

\* C15 as the claim states it: for a body of k complete blocks followed by
\* a truncated one the call returns CALDAV_ERROR_OK with Length k and the k
\* events in order.
C15_PartialAlways == TruncatedConsumed => PartialResult

\* C15, amended: the call returns CALDAV_ERROR_OK with Length k and the k
\* events in order when no allocation it needs fails; it returns
\* CALDAV_ERROR_NO_MEM when the array or the buffer of one of the k
\* complete blocks cannot be allocated.  The truncated block needs no
\* allocation, produces no record and no error.
C15_PartialOnTruncated ==
    TruncatedConsumed =>
        IF lastResp.mem = -1 \/ lastResp.mem \in 1..(Len(lastResp.frags) - 1)
        THEN result.ret = "NO_MEM"
        ELSE PartialResult

\* the call has returned one event for a body of one complete block and
\* a truncated one; the array has the two slots of the count
C15_Witness ==
    /\ pc = "idle"
    /\ result = [op |-> "events", ret |-> "OK"]
    /\ lastResp.frags = <<"EV1", "TRUNC">>
    /\ lastResp.mem = 0
    /\ events.Length = 1
    /\ Len(events.Events) = 2
    /\ events.Events[1].UID = <<"u1">>

\* the positions of the slashes of a URL that come after a "://"
PathSlashes(URL) ==
    {i \in 1..Len(URL) : URL[i] = "/" /\ \E j \in 1..(i - 1) : URL[j] = "://"}

\* scheme://host of a URL: what comes before the first slash after "://",
\* the whole URL where there is none
HostPart(URL) ==
    IF PathSlashes(URL) = {} THEN URL ELSE SubSeq(URL, 1, SetMin(PathSlashes(URL)) - 1)

Absolute(Path) == Path # <<>> /\ Path[1] = "/"

\* the first MaxURLLen characters of a text
Capped(Text) == SubSeq(Text, 1, IF Len(Text) > MaxURLLen THEN MaxURLLen ELSE Len(Text))

C8_OnlyFor207 ==
    (/\ result = [op |-> "events", ret |-> "OK"]
     /\ lastResp.err = "ESP_OK")
    => lastResp.status = 207

-----------------------------------------------------------------------------
(* Properties of the session *)

Operations == {"test", "list", "events"}

\* C18: an operation called while the session is not initialized issues no
\* request and returns CALDAV_ERROR_NOT_INITIALIZED (CalDAV_Test_Connection)
\* or CALDAV_ERROR_INVALID_ARG (the two listings); called while the session
\* is initialized it never returns CALDAV_ERROR_NOT_INITIALIZED, the
\* connection test goes on to its request unless the HTTP client cannot be
\* created, and an operation that goes on has issued one request.
C18_LifecycleGate ==
    [][(pc = "idle" /\ result'.op \in Operations)
       => IF ~client.IsInitialized
          THEN /\ pc' = "idle"
               /\ requests' = <<>>
               /\ result'.ret = IF result'.op = "test" THEN "NOT_INITIALIZED"
                                 ELSE "INVALID_ARG"
          ELSE /\ result'.ret # "NOT_INITIALIZED"
               /\ result'.op = "test" => result'.ret \in {"pending", "FAIL"}
               /\ result'.ret = "pending" => (pc' = result'.op /\ Len(requests') = 1)
               /\ result'.ret # "pending" => (pc' = "idle" /\ requests' = <<>>)]_vars

\* a listing was refused on a session that had been initialized and was
\* deinitialized since (it still holds its server URL)
C18_Witness ==
    /\ pc = "idle"
    /\ ~client.IsInitialized
    /\ client.ServerURL # <<>>
    /\ result = [op |-> "list", ret |-> "INVALID_ARG"]
    /\ requests = <<>>

\* the contexts that are inside an operation on session s: the running one
\* by pc, the others by the frame kept for them
InFlightOn(s) ==
    {t \in Contexts :
        IF t = pure.running THEN pc # "idle" /\ pure.session = s
        ELSE pure.saved[t].pc # "idle" /\ pure.saved[t].session = s}

\* C19: at most one operation is in flight per session at a time: no second
\* context has configured and issued a request on a session while the
\* operation of another context on that session has not returned.
C19_OneInFlightPerSession ==
    \A s \in Sessions : Cardinality(InFlightOn(s)) <= 1

\* the configuration a session was initialized with (the server URLs of the
\* configurations are different)
GivenConfig(p_Client) == CHOOSE c \in ValidConfigs : c.ServerURL = p_Client.ServerURL

\* the request carries the credentials and the timeout of p_Config
Carries(request, p_Config) ==
    /\ request.username = p_Config.Username
    /\ request.password = p_Config.Password
    /\ request.timeout_ms = p_Config.TimeoutMs
    /\ request.auth_type = "BASIC"

\* C20: a request issued by an operation on a session carries the username,
\* the password and the timeout that session was initialized with, and HTTP
\* Basic authentication, whatever other session was initialized in between
\* and whichever context called CalDAV_Client_Init.
C20_SessionCredentials ==
    [][(pure' = pure /\ client.IsInitialized /\ Len(requests') > Len(requests))
       => Carries(requests'[Len(requests')], GivenConfig(client))]_vars

-----------------------------------------------------------------------------
(* Properties of the scan loops *)

\* C28: the scan loops write inside the arrays: the records written are at
\* most as many as the slots the pre-sizing count allocated, for the
\* calendars and for the events, so every slot written has an index below
\* the count.
C28_WritesInBounds ==
    (pure.fn = "scan" /\ pure.done) =>
        /\ pure.CurrentCalendar <= pure.CalendarCount
        /\ pure.CurrentEvent <= pure.EventCount

\* a body with two calendar blocks of which the count saw one: the loop
\* stopped after the one slot
C28_Witness ==
    /\ pure.fn = "scan" /\ pure.done
    /\ pure.list = <<"CAL", "UCAL">>
    /\ pure.CalendarCount = 1
    /\ pure.CurrentCalendar = 1
    /\ pure.events = <<"EV1", "EV2">>
    /\ pure.CurrentEvent = 2

\* the call returned for an invalid argument, a failed transport or a status
\* that is not accepted
GatedFailure(res, resp) ==
    \/ res.ret = "INVALID_ARG"
    \/ /\ res.ret = "HTTP"
       /\ (resp.err # "ESP_OK" \/ resp.status \notin {200, 207})

\* C30 as the claim states it: when a listing returns for an invalid
\* argument, a failed transport or a status that is not accepted, the
\* caller's output (here empty before the call) and the session are as they
\* were before the call.
C30_FrameOnFailure ==
    [][(/\ pc' = "idle"
        /\ <<pc, result>> # <<pc', result'>>
        /\ result'.op \in {"list", "events"}
        /\ GatedFailure(result', lastResp'))
       => (/\ client' = client
           /\ calendars' = (IF result'.op = "list" THEN EmptyList ELSE calendars)
           /\ events' = (IF result'.op = "events" THEN NoEvents ELSE events))]_vars

-----------------------------------------------------------------------------
(* Properties of the response buffer *)

\* the positions of the releases among what was done with the buffer
Frees(Ops) == {i \in 1..Len(Ops) : Ops[i] = "free"}

\* C26: when an operation has gone past esp_http_client_perform, a buffer
\* the accumulator allocated is released exactly once and the release is the
\* last thing done with it; where no buffer was allocated nothing is
\* released.
C26_BufferLifetime ==
    lastResp # NoOutcome =>
        IF Accumulated(lastResp) = <<>> THEN heap.Ops = <<>>
        ELSE Frees(heap.Ops) = {Len(heap.Ops)}

\* an event listing whose second block buffer could not be allocated has
\* copied one block out of the buffer and released the buffer after that
C26_Witness ==
    /\ pc = "idle"
    /\ result = [op |-> "events", ret |-> "NO_MEM"]
    /\ lastResp.mem = 2
    /\ heap.Ops = <<"read", "read", "read", "free">>

-----------------------------------------------------------------------------
(* Properties of the Response Accumulator *)

\* Size is Length times a power of two
DoubledFrom(Size, Length) == \E k \in 0..Size : Size = Length * (2 ^ k)

\* C23: after every successful append Position is below Size, the byte at
\* index Position is 0, and Size is the initial buffer length times a power
\* of two.
C23_AccumulatorInvariant ==
    (pure.fn = "buffer" /\ pure.ret = "ESP_OK") =>
        /\ pure.Response.Allocated
        /\ pure.Response.Position < pure.Response.Size
        /\ Len(pure.Response.Bytes) = pure.Response.Size
        /\ pure.Response.Bytes[pure.Response.Position + 1] = 0
        /\ DoubledFrom(pure.Response.Size, pure.Length)

\* a buffer of initial length 3 that was doubled twice and holds 11 bytes
\* before the terminator in its last byte
C23_Witness ==
    /\ pure.fn = "buffer" /\ pure.ret = "ESP_OK"
    /\ pure.Length = 3
    /\ pure.Response.Size = 12
    /\ pure.Response.Position = 11

\* C13 as the claim states it: an operation during which an allocation of
\* the accumulator failed has returned CALDAV_ERROR_NO_MEM, and the response
\* buffer is not left allocated.
C13_AccumulatorFailureSurfaces ==
    (/\ pc = "idle"
     /\ result.op \in {"list", "events"}
     /\ lastResp.mem \in {AccMallocFails, AccReallocFails})
    => (result.ret = "NO_MEM" /\ heap.Buffer # "live")

-----------------------------------------------------------------------------
(* Properties of CalDAV_Test_Connection *)

\* C10: with a successful transport the call returns CALDAV_ERROR_OK for
\* the statuses 200, 204 and 207 and CALDAV_ERROR_HTTP for every other one,
\* whatever the response body is.
C10_TestStatusMapping ==
    [][(/\ pc = "test"
        /\ lastResp'.err = "ESP_OK")
       => (/\ pc' = "idle"
           /\ result' = [op |-> "test",
                         ret |-> IF lastResp'.status \in {200, 204, 207} THEN "OK" ELSE "HTTP"])]_vars

\* a connection test has returned CALDAV_ERROR_OK for a 204 response
C10_Witness ==
    /\ pc = "idle"
    /\ result = [op |-> "test", ret |-> "OK"]
    /\ lastResp.err = "ESP_OK" /\ lastResp.status = 204
    /\ client.IsInitialized

\* C21: the request of CalDAV_Test_Connection is a PROPFIND with the header
\* Depth: 0 against the session's server URL, whatever calls were made
\* before.
C21_TestRequest ==
    pc = "test" =>
        /\ Len(requests) = 1
        /\ requests[1].method = "PROPFIND"
        /\ requests[1].Depth = "0"
        /\ requests[1].url = client.ServerURL

-----------------------------------------------------------------------------
(* Properties of the extractors *)

\* C4 as the claim states it: for an element whose opening and closing tag
\* carry the same prefix (none, D or ns1) around a text without tags, the
\* value extracted for "displayname" is the text.
C4_NamespaceTolerant ==
    (pure.fn = "xml" /\ pure.done /\ pure.open = pure.close) => pure.out = pure.text

\* C5 as the claim states it: the value extracted for "KEY:" from
\* KEY:VALUE CR LF is VALUE, for every VALUE without line end.
C5_RoundTrip ==
    (pure.fn = "ical" /\ pure.done) => pure.out = pure.value

=============================================================================
